---- MODULE Spec2Model ----
(***************************************************************************)
(* Roller-coaster track geometry (kokorocks/cco).                          *)
(*                                                                         *)
(* Three RollerCoasterTrackGeometry constructors are modelled:             *)
(*   "transport"  src/rollercoaster.js   (parallel-transport frames)       *)
(*   "fixedUp"    src/unnamed/part_001   (per-sample fixed-up frames)      *)
(*   "keyframes"  src/unnamed/part_002   (bank keyframes, quaternions)     *)
(*                                                                         *)
(* Numbers are exact rationals <<n, d>> (d > 0, lowest terms); a vector is *)
(* a triple of rationals.  Angles are counted in quarter turns (pi/2).     *)
(***************************************************************************)
EXTENDS Integers, Sequences, FiniteSets, TLC

VARIABLES
  applyMatrix3,   \* Vector3.prototype.applyMatrix3: "three" or "patched"
  pc,             \* position of the running constructor
  inp,            \* its arguments (curve, divisions, options) and variant
  outcome,        \* "none", "mesh" or "TypeError"
  frames,         \* transport: [tangents, normals, binormals] arrays
  cur,            \* fixedUp/keyframes: frame of the current division
  prev,           \* fixedUp/keyframes: frame of the previous division
  up,             \* keyframes: the reusable up vector
  i, k, j,        \* division, polygon and edge counters
  vertices,       \* flat number arrays the constructor pushes to
  normalsA,
  colors,
  geometry,       \* <<>>, or <<the attributes set on the BufferGeometry>>
  rawKeys,        \* options.bankKeyframes (the caller's array)
  bankKeys,       \* sorted keyframes
  bankT,          \* last t asked of getBankAngle
  bankAngle,      \* and its answer
  memo            \* <<>>, or <<a finished construction kept for comparison>>

vars == <<applyMatrix3, pc, inp, outcome, frames, cur, prev, up, i, k, j,
          vertices, normalsA, colors, geometry, rawKeys, bankKeys, bankT,
          bankAngle, memo>>

(***************************************************************************)
(* Bounds of the model.                                                    *)
(***************************************************************************)
MaxDivisions == 2
MaxKeys == 4

(***************************************************************************)
(* Exact rational arithmetic.                                              *)
(***************************************************************************)
Abs(n) == IF n < 0 THEN -n ELSE n

RECURSIVE GCD(_, _)
GCD(a, b) == IF b = 0 THEN a ELSE GCD(b, a % b)

\* the fraction n / d in lowest terms with a positive denominator
Lowest(n, d, g) == IF d < 0 THEN <<-(n \div g), -(d \div g)>> ELSE <<n \div g, d \div g>>
Q(n, d) == IF n = 0 THEN <<0, 1>> ELSE Lowest(n, d, GCD(Abs(n), Abs(d)))

Num(n) == <<n, 1>>
Zero == <<0, 1>>
One == <<1, 1>>

RNeg(a) == <<-a[1], a[2]>>
\* a + b over the common denominator l
AddOver(a, b, l) == Q(a[1] * (l \div a[2]) + b[1] * (l \div b[2]), l)
RAdd(a, b) == AddOver(a, b, (a[2] \div GCD(a[2], b[2])) * b[2])
RSub(a, b) == RAdd(a, <<-b[1], b[2]>>)
MulBy(a, b, g1, g2) == <<(a[1] \div g1) * (b[1] \div g2), (a[2] \div g2) * (b[2] \div g1)>>
RMul(a, b) ==
  IF a[1] = 0 \/ b[1] = 0 THEN <<0, 1>>
  ELSE MulBy(a, b, GCD(Abs(a[1]), b[2]), GCD(Abs(b[1]), a[2]))
RInv(a) == IF a[1] < 0 THEN <<-a[2], -a[1]>> ELSE <<a[2], a[1]>>
RDiv(a, b) == RMul(a, RInv(b))
RLt(a, b) == a[1] * b[2] < b[1] * a[2]
RLe(a, b) == a[1] * b[2] <= b[1] * a[2]
RAbs(a) == <<Abs(a[1]), a[2]>>

RECURSIVE RootFrom(_, _)
RootFrom(n, r) ==
  IF r * r = n THEN r
  ELSE IF r * r > n THEN CHOOSE x \in {} : TRUE   \* no exact root
  ELSE RootFrom(n, r + 1)
\* Math.sqrt on the squares the model's inputs produce
RSqrt(a) == <<RootFrom(a[1], 0), RootFrom(a[2], 1)>>

(***************************************************************************)
(* Vector3.                                                                *)
(***************************************************************************)
Vec(x, y, z) == <<x, y, z>>
VInt(x, y, z) == <<<<x, 1>>, <<y, 1>>, <<z, 1>>>>
VZero == <<<<0, 1>>, <<0, 1>>, <<0, 1>>>>
\* the sum of the numbers of a sequence
RECURSIVE Sum(_)
Sum(xs) == IF Len(xs) = 1 THEN xs[1] ELSE RAdd(Sum(SubSeq(xs, 1, Len(xs) - 1)), xs[Len(xs)])
\* the sum of the vectors of a sequence
VSum(vs) == [n \in 1..3 |-> Sum([m \in 1..Len(vs) |-> vs[m][n]])]
add(a, b) == [n \in 1..3 |-> RAdd(a[n], b[n])]
sub(a, b) == [n \in 1..3 |-> RSub(a[n], b[n])]
multiplyScalar(a, s) == [n \in 1..3 |-> RMul(a[n], s)]
dot(a, b) == Sum([n \in 1..3 |-> RMul(a[n], b[n])])
\* component n is a[n+1] b[n+2] - a[n+2] b[n+1], indices taken cyclically
crossVectors(a, b) ==
  [n \in 1..3 |-> RSub(RMul(a[(n % 3) + 1], b[((n + 1) % 3) + 1]),
                       RMul(a[((n + 1) % 3) + 1], b[(n % 3) + 1]))]
lengthSq(a) == dot(a, a)
length(a) == RSqrt(lengthSq(a))
\* three.js: divideScalar(length() || 1), given the squared length l2
divideByLength(a, l2) ==
  IF l2 = Zero \/ l2 = One THEN a ELSE multiplyScalar(a, RInv(RSqrt(l2)))
normalize(a) == divideByLength(a, lengthSq(a))

(***************************************************************************)
(* Quaternion, as the rotation it applies: a 3x3 matrix given by rows.     *)
(* An angle is the pair [c, s] of its cosine and sine.                     *)
(***************************************************************************)
Identity == <<VInt(1, 0, 0), VInt(0, 1, 0), VInt(0, 0, 1)>>
PI == [c |-> <<-1, 1>>, s |-> <<0, 1>>]
\* Math.asin(x) for 0 <= x <= 1: the angle in [0, pi/2] whose sine is x
asin(x) == [c |-> RSqrt(RSub(One, RMul(x, x))), s |-> x]
\* an angle given as a whole number q of quarter turns
quarterTurns(q) ==
  CASE q % 4 = 0 -> [c |-> <<1, 1>>, s |-> <<0, 1>>]
    [] q % 4 = 1 -> [c |-> <<0, 1>>, s |-> <<1, 1>>]
    [] q % 4 = 2 -> [c |-> <<-1, 1>>, s |-> <<0, 1>>]
    [] q % 4 = 3 -> [c |-> <<0, 1>>, s |-> <<-1, 1>>]
\* the rotation by angle about the unit axis: row r, column c is
\* (1 - cos) a_r a_c + cos on the diagonal, and off it
\* (1 - cos) a_r a_c -/+ sin a_k with k the third index
setFromAxisAngle(axis, angle) ==
  [r \in 1..3 |-> [c \in 1..3 |->
     RAdd(RMul(RSub(One, angle.c), RMul(axis[r], axis[c])),
          IF r = c THEN angle.c
          ELSE RMul(IF (c - r) % 3 = 1 THEN RNeg(angle.s) ELSE angle.s,
                    axis[6 - r - c]))]]
applyQuaternion(v, q) == [r \in 1..3 |-> dot(q[r], v)]

(***************************************************************************)
(* The curve (an external collaborator): a path of length PathLength that  *)
(* runs along direction d1 up to t = 1/2 and along d2 from there.          *)
(***************************************************************************)
Half == <<1, 2>>
PathLength == <<10, 1>>
Direction(name) ==
  CASE name = "X"  -> <<<<1, 1>>, <<0, 1>>, <<0, 1>>>>
    [] name = "-X" -> <<<<-1, 1>>, <<0, 1>>, <<0, 1>>>>
    [] name = "Y"  -> <<<<0, 1>>, <<1, 1>>, <<0, 1>>>>
    [] name = "Z"  -> <<<<0, 1>>, <<0, 1>>, <<1, 1>>>>
    [] name = "A"  -> <<<<3, 5>>, <<4, 5>>, <<0, 1>>>>
    [] name = "B"  -> <<<<-3, 5>>, <<4, 5>>, <<0, 1>>>>
getTangentAt(curve, t) == Direction(IF RLt(t, Half) THEN curve.d1 ELSE curve.d2)
\* the way along d1 up to t = 1/2, the rest along d2
getPointAt(curve, t) ==
  VSum([n \in 1..2 |->
         multiplyScalar(Direction(IF n = 1 THEN curve.d1 ELSE curve.d2),
                        RMul(PathLength,
                             IF RLt(t, Half) THEN (IF n = 1 THEN t ELSE Zero)
                             ELSE (IF n = 1 THEN Half ELSE RSub(t, Half))))])

(***************************************************************************)
(* Options: bankFunc, colorFunc, coasterType.                              *)
(***************************************************************************)
\* options.bankFunc || (() => 0); the answer is in quarter turns
bankFunc(name, t) ==
  CASE name = "absent"  -> 0
    [] name = "quarter" -> 1
    [] name = "step"    -> IF RLt(t, Half) THEN 0 ELSE 2
defaultColor1 == <<<<1, 1>>, <<1, 1>>, <<1, 1>>>>
defaultColor2 == <<<<1, 1>>, <<1, 1>>, <<0, 1>>>>
colorFunc(name, t, type) ==
  CASE name = "absent" -> IF type = 1 THEN defaultColor1 ELSE defaultColor2
    [] name = "custom" -> <<t, <<type - 1, 1>>, <<0, 1>>>>
coasterTypeOf(opt) == IF opt = "absent" THEN "B&M" ELSE opt

\* Math.cos and Math.sin of (i / sides) * 2 pi, to the model's precision
CosT(n, sides) ==
  CASE sides = 4 -> <<<<1, 1>>, <<0, 1>>, <<-1, 1>>, <<0, 1>>>>[n + 1]
    [] sides = 5 -> <<<<1, 1>>, <<3, 10>>, <<-4, 5>>, <<-4, 5>>, <<3, 10>>>>[n + 1]
    [] sides = 6 -> <<<<1, 1>>, <<1, 2>>, <<-1, 2>>, <<-1, 1>>, <<-1, 2>>, <<1, 2>>>>[n + 1]
SinT(n, sides) ==
  CASE sides = 4 -> <<<<0, 1>>, <<1, 1>>, <<0, 1>>, <<-1, 1>>>>[n + 1]
    [] sides = 5 -> <<<<0, 1>>, <<19, 20>>, <<3, 5>>, <<-3, 5>>, <<-19, 20>>>>[n + 1]
    [] sides = 6 -> <<<<0, 1>>, <<7, 8>>, <<7, 8>>, <<0, 1>>, <<-7, 8>>, <<-7, 8>>>>[n + 1]
\* makeTube(sides, radius); cosine on x and sine on y in rollercoaster.js
\* and part_001, sine on x and cosine on y in part_002
makeTubeOf(sides, radius, sinFirst) ==
  [n \in 1..sides |->
     [m \in 1..3 |->
        IF m = 3 THEN Zero
        ELSE RMul(IF (m = 1) = sinFirst THEN SinT(n - 1, sides) ELSE CosT(n - 1, sides),
                  radius)]]
makeTube(sides, radius) == makeTubeOf(sides, radius, FALSE)
CatalogKeys == {"B&M", "skeleton", "default"}
\* the calls of makeTube in the object literal: <<sides, radius>>
tubesOf(key) ==
  CASE key = "B&M" -> <<<<5, <<3, 50>>>>, <<6, <<1, 40>>>>, <<6, <<1, 40>>>>>>
    [] key = "skeleton" -> <<<<4, <<3, 100>>>>>>
    [] key = "default" -> <<<<5, <<3, 50>>>>, <<6, <<1, 40>>>>, <<6, <<1, 40>>>>>>
crossSections(key) ==
  [n \in 1..Len(tubesOf(key)) |-> makeTube(tubesOf(key)[n][1], tubesOf(key)[n][2])]
\* names every object literal inherits from Object.prototype
InheritedKeys == {"constructor", "toString", "valueOf", "hasOwnProperty"}
\* crossSections[coasterType] || crossSections['default']
section(coasterType) ==
  IF coasterType \notin CatalogKeys /\ coasterType \in InheritedKeys
  THEN [array |-> FALSE, shapes |-> <<>>]       \* an inherited function: truthy
  ELSE [array |-> TRUE,
        shapes |-> crossSections(IF coasterType \in CatalogKeys
                                 THEN coasterType ELSE "default")]
\* section[n - 1]: undefined on anything that is not the array
shapeOf(sec, n) ==
  IF sec.array /\ n <= Len(sec.shapes)
  THEN [defined |-> TRUE, points |-> sec.shapes[n]]
  ELSE [defined |-> FALSE, points |-> <<>>]
\* (mutation) the spine is extruded with color1 like the side rails
polygonsOneColor(coasterType) ==
  IF coasterType = "skeleton"
  THEN <<[n |-> 1, offset |-> <<<<0, 1>>, <<-1, 20>>, <<0, 1>>>>, type |-> 1]>>
  ELSE <<[n |-> 1, offset |-> <<<<0, 1>>, <<-1, 8>>, <<0, 1>>>>, type |-> 1],
         [n |-> 2, offset |-> <<<<1, 5>>, <<0, 1>>, <<0, 1>>>>, type |-> 1],
         [n |-> 3, offset |-> <<<<-1, 5>>, <<0, 1>>, <<0, 1>>>>, type |-> 1]>>
\* the calls of extrudeShape in one division: polygon index, offset, color type
polygons(coasterType) ==
  IF coasterType = "skeleton"
  THEN <<[n |-> 1, offset |-> <<<<0, 1>>, <<-1, 20>>, <<0, 1>>>>, type |-> 2]>>
  ELSE <<[n |-> 1, offset |-> <<<<0, 1>>, <<-1, 8>>, <<0, 1>>>>, type |-> 2],
         [n |-> 2, offset |-> <<<<1, 5>>, <<0, 1>>, <<0, 1>>>>, type |-> 1],
         [n |-> 3, offset |-> <<<<-1, 5>>, <<0, 1>>, <<0, 1>>>>, type |-> 1]>>

(***************************************************************************)
(* extrudeShape: one pass of its loop over the edges of a ring.            *)
(***************************************************************************)
basisMatrix(b, n, t) ==
  [elements |-> <<b[1], n[1], t[1], b[2], n[2], t[2], b[3], n[3], t[3]>>,
   applyToVector3 |-> TRUE]
\* v.applyMatrix3(m) under the method Vector3.prototype holds: the one the
\* constructors install reads m by rows, the library's own by columns
ApplyMatrix3(method, v, m) ==
  [r \in 1..3 |->
     Sum([c \in 1..3 |->
            RMul(m.elements[IF method = "patched" THEN 3 * (r - 1) + c
                            ELSE 3 * (c - 1) + r], v[c])])]
\* a number sgn * sqrt(n / d), written <<sgn, n, d>>
Sign(a) == IF a[1] > 0 THEN 1 ELSE IF a[1] < 0 THEN -1 ELSE 0
LCM(a, b) == (a \div GCD(a, b)) * b
\* v scaled to whole numbers without a common factor
wholeOver(v, l) == [n \in 1..3 |-> v[n][1] * (l \div v[n][2])]
wholeBy(w, g) == [n \in 1..3 |-> IF g = 0 THEN 0 ELSE w[n] \div g]
whole(w) == wholeBy(w, GCD(GCD(Abs(w[1]), Abs(w[2])), Abs(w[3])))
rootsOf(v, u, d) ==
  [n \in 1..3 |-> IF u[n] = 0 THEN <<0, 0, 1>> ELSE <<Sign(v[n])>> \o Q(u[n] * u[n], d)]
rootsOver(v, u) == rootsOf(v, u, u[1] * u[1] + u[2] * u[2] + u[3] * u[3])
\* the components of v.normalize(), exact for every v
normalizedComponents(v) ==
  rootsOver(v, whole(wholeOver(v, LCM(LCM(v[1][2], v[2][2]), v[3][2]))))
Flat(vs) == [n \in 1..(3 * Len(vs)) |-> vs[((n - 1) \div 3) + 1][((n - 1) % 3) + 1]]
\* frame: [binormal, normal, tangent, point]; v1..v4 and n1..n4 of an edge:
\* corners 1 and 4 are p1, corners 1 and 2 are under the current frame
edgeCorners(method, shape, offset, jj, f, fPrev) ==
  LET P(n) == shape[IF n \in {1, 4} THEN jj + 1 ELSE ((jj + 1) % Len(shape)) + 1]
      F(n) == IF n <= 2 THEN f ELSE fPrev
      M(n) == basisMatrix(F(n).binormal, F(n).normal, F(n).tangent)
  IN [v |-> [n \in 1..4 |->
               add(ApplyMatrix3(method, add(P(n), offset), M(n)), F(n).point)],
      n |-> [n \in 1..4 |-> normalizedComponents(ApplyMatrix3(method, P(n), M(n)))]]
\* what one pass pushes to vertices and to normalsA
bothPushes(c, order) ==
  [vertices |-> Flat([n \in 1..6 |-> c.v[order[n]]]),
   normals |-> Flat([n \in 1..6 |-> c.n[order[n]]])]
\* (mutation) the second triangle is pushed as (v1, v3, v4)
extrudeEdgeFan(method, shape, offset, jj, f, fPrev) ==
  bothPushes(edgeCorners(method, shape, offset, jj, f, fPrev), <<1, 2, 4, 1, 3, 4>>)
\* push(v1, v2, v4) and push(v2, v3, v4), for vertices and for normalsA
extrudeEdge(method, shape, offset, jj, f, fPrev) ==
  bothPushes(edgeCorners(method, shape, offset, jj, f, fPrev), <<1, 2, 4, 2, 3, 4>>)
\* (mutation) the loop over k stops one short
fiveColors(color) == color \o color \o color \o color \o color
\* for (let k = 0; k < 6; k++) colors.push(...color)
sixColors(color) == color \o color \o color \o color \o color \o color

(***************************************************************************)
(* Arguments the constructors are called with.                             *)
(***************************************************************************)
Styles == {"absent", "B&M", "skeleton", "default", "not-a-real-style",
           "constructor", "toString"}
Curve(a, b) == [d1 |-> a, d2 |-> b]
Curves == {Curve("Z", "Z"), Curve("Y", "Y"), Curve("X", "Z"), Curve("X", "A"),
           Curve("X", "B"), Curve("X", "-X")}
BankFuncs == {"absent", "quarter", "step"}
Divisions == 0..MaxDivisions
Args(v, c, d, st, b, col) ==
  [variant |-> v, curve |-> c, divisions |-> d, coasterType |-> st,
   bank |-> b, colorFunc |-> col]
\* every style on one bent path, every path and bank on the one-ring style,
\* and the three-ring style with a colorFunc of the caller
TransportInputs ==
  {Args("transport", Curve("X", "Z"), d, st, "absent", "absent") :
     d \in Divisions, st \in Styles}
  \cup {Args("transport", Curve("Z", "Z"), d, "B&M", "absent", "custom") :
     d \in Divisions}
  \cup {Args("transport", c, d, "skeleton", b, "custom") :
     c \in Curves, d \in Divisions, b \in BankFuncs}

T(n, divisions) == Q(n, divisions)
\* bankT before getBankAngle was called
NoT == Num(-1)
\* the kept construction learns that a different one has started since
noteStart(m, input) ==
  IF Len(m) = 1 /\ m[1].inp # input THEN <<[m[1] EXCEPT !.disturbed = TRUE]>> ELSE m
Idle == pc \in {"idle", "done", "error"}
EmptyFrames == [tangents |-> <<>>, normals |-> <<>>, binormals |-> <<>>]

(***************************************************************************)
(* src/rollercoaster.js                                                    *)
(***************************************************************************)
\* parallelTransportFrames, before its loop: the frame at t = 0
initialFrame(curve) ==
  LET prevTangent == normalize(getTangentAt(curve, Zero))
      normal0 == IF RLt(Q(999, 1000), RAbs(dot(prevTangent, VInt(0, 1, 0))))
                 THEN VInt(1, 0, 0) ELSE VInt(0, 1, 0)
      binormal == normalize(crossVectors(prevTangent, normal0))
      normal == normalize(crossVectors(binormal, prevTangent))
  IN [tangent |-> prevTangent, normal |-> normal, binormal |-> binormal]
\* parallelTransportFrames, one pass of its loop: the frame at t from the last
transportFrame(curve, t, bank, last) ==
  LET tangent == normalize(getTangentAt(curve, t))
      axis == crossVectors(last.tangent, tangent)
      angle == IF RLt(dot(last.tangent, tangent), Zero) THEN PI ELSE asin(length(axis))
      turn == RLt(Q(1, 1000000), length(axis))
      q == setFromAxisAngle(normalize(axis), angle)
      normal1 == IF turn THEN applyQuaternion(last.normal, q) ELSE last.normal
      binormal1 == IF turn THEN applyQuaternion(last.binormal, q) ELSE last.binormal
      qBank == setFromAxisAngle(tangent, quarterTurns(bank))
  IN [tangent |-> tangent,
      normal |-> IF bank # 0 THEN applyQuaternion(normal1, qBank) ELSE normal1,
      binormal |-> IF bank # 0 THEN applyQuaternion(binormal1, qBank) ELSE binormal1]
pushFrame(fs, f) ==
  [tangents |-> Append(fs.tangents, f.tangent),
   normals |-> Append(fs.normals, f.normal),
   binormals |-> Append(fs.binormals, f.binormal)]
\* frame n (0-based) of the arrays, with the curve point extrudeShape adds
frameAt(fs, curve, n, divisions) ==
  [binormal |-> fs.binormals[n + 1], normal |-> fs.normals[n + 1],
   tangent |-> fs.tangents[n + 1], point |-> getPointAt(curve, T(n, divisions))]
lastFrame(fs) ==
  [tangent |-> fs.tangents[Len(fs.tangents)], normal |-> fs.normals[Len(fs.normals)],
   binormal |-> fs.binormals[Len(fs.binormals)]]
\* (mutation) extrudeShape leaves the method as it finds it
methodAsFound(method) == method
\* Vector3.prototype.applyMatrix3 = function(m) {...} inside extrudeShape
patchInExtrudeShape(method) == "patched"

\* new RollerCoasterTrackGeometry(curve, divisions, options), up to the
\* first pass of the loop of parallelTransportFrames
StartTransport(input) ==
  /\ Idle
  /\ input.variant = "transport"
  /\ inp' = input
  /\ outcome' = "none"
  /\ vertices' = <<>> /\ normalsA' = <<>> /\ colors' = <<>>
  /\ geometry' = <<>>
  /\ frames' = pushFrame(EmptyFrames, initialFrame(input.curve))
  /\ pc' = IF 1 <= input.divisions THEN "transport" ELSE "loop"
  /\ i' = IF 1 <= input.divisions THEN 1 ELSE 0
  /\ k' = 0 /\ j' = 0
  /\ cur' = <<>> /\ prev' = <<>> /\ up' = VInt(0, 1, 0)
  /\ rawKeys' = <<>> /\ bankKeys' = <<>>
  /\ bankT' = NoT /\ bankAngle' = Zero
  /\ memo' = noteStart(memo, input)
  /\ UNCHANGED applyMatrix3

TransportStep ==
  /\ pc = "transport"
  /\ LET t == T(i, inp.divisions)
     IN frames' = pushFrame(frames,
          transportFrame(inp.curve, t, bankFunc(inp.bank, t), lastFrame(frames)))
  /\ pc' = IF i + 1 <= inp.divisions THEN "transport" ELSE "loop"
  /\ i' = IF i + 1 <= inp.divisions THEN i + 1 ELSE 0
  /\ UNCHANGED <<applyMatrix3, inp, outcome, cur, prev, up, k, j, vertices, normalsA,
                 colors, geometry, rawKeys, bankKeys, bankT, bankAngle, memo>>

\* the head of "for (let i = 1; i <= divisions; i++)" and the first call of
\* extrudeShape up to "shape.length", which throws on undefined
TransportDivision ==
  /\ pc = "loop" /\ inp.variant = "transport"
  /\ i' = i + 1
  /\ IF i + 1 <= inp.divisions
     THEN IF shapeOf(section(coasterTypeOf(inp.coasterType)), 1).defined
          THEN pc' = "extrude" /\ outcome' = outcome
          ELSE pc' = "error" /\ outcome' = "TypeError"
     ELSE pc' = "attributes" /\ outcome' = outcome
  /\ k' = 1 /\ j' = 0
  /\ UNCHANGED <<applyMatrix3, inp, frames, cur, prev, up, vertices, normalsA,
                 colors, geometry, rawKeys, bankKeys, bankT, bankAngle, memo>>

\* one pass of the loop of extrudeShape; after the last edge of the last
\* polygon the division is over
TransportEdge ==
  /\ pc = "extrude" /\ inp.variant = "transport"
  /\ LET ct == coasterTypeOf(inp.coasterType)
         poly == polygons(ct)[k]
         shape == shapeOf(section(ct), poly.n).points
         method == patchInExtrudeShape(applyMatrix3)
         e == extrudeEdge(method, shape, poly.offset, j,
                          frameAt(frames, inp.curve, i, inp.divisions),
                          frameAt(frames, inp.curve, i - 1, inp.divisions))
         lastEdge == j + 1 = Len(shape)
         lastPoly == k = Len(polygons(ct))
     IN /\ applyMatrix3' = method
        /\ vertices' = vertices \o e.vertices
        /\ normalsA' = normalsA \o e.normals
        /\ colors' = colors \o
             sixColors(colorFunc(inp.colorFunc, T(i, inp.divisions), poly.type))
        /\ j' = IF lastEdge THEN 0 ELSE j + 1
        /\ k' = IF lastEdge THEN k + 1 ELSE k
        /\ pc' = IF lastEdge /\ lastPoly THEN "loop" ELSE "extrude"
  /\ UNCHANGED <<inp, outcome, frames, cur, prev, up, i, geometry, rawKeys,
                 bankKeys, bankT, bankAngle, memo>>

(***************************************************************************)
(* src/unnamed/part_001: the frame of every sample from one fixed up.      *)
(***************************************************************************)
FixedUpInputs ==
  {Args("fixedUp", Curve("X", "Z"), d, st, "absent", "absent") :
     d \in Divisions, st \in Styles}
  \cup {Args("fixedUp", c, d, "skeleton", b, "custom") :
     c \in Curves, d \in Divisions, b \in BankFuncs}
\* binormal and normal of the sample at t, before banking
fixedUpFrame(curve, t) ==
  LET tangent == normalize(getTangentAt(curve, t))
      binormal == normalize(crossVectors(VInt(0, 1, 0), tangent))
      normal == normalize(crossVectors(tangent, binormal))
  IN [binormal |-> binormal, normal |-> normal, tangent |-> tangent,
      point |-> getPointAt(curve, t)]
\* the frame one pass of the main loop works with
bankedFrame(curve, t, bank) ==
  LET f == fixedUpFrame(curve, t)
      bankQuat == setFromAxisAngle(f.tangent, quarterTurns(bank))
  IN IF bank # 0
     THEN [f EXCEPT !.binormal = applyQuaternion(f.binormal, bankQuat),
                    !.normal = applyQuaternion(f.normal, bankQuat)]
     ELSE f
\* Vector3.prototype.applyMatrix3 = function(m) {...} in the constructor
patchInConstructor(method) == "patched"

\* the constructor up to its main loop
StartFixedUp(input) ==
  /\ Idle
  /\ input.variant = "fixedUp"
  /\ inp' = input
  /\ outcome' = "none"
  /\ vertices' = <<>> /\ normalsA' = <<>> /\ colors' = <<>>
  /\ geometry' = <<>>
  /\ applyMatrix3' = patchInConstructor(applyMatrix3)
  /\ cur' = fixedUpFrame(input.curve, Zero)
  /\ prev' = fixedUpFrame(input.curve, Zero)
  /\ pc' = "loop"
  /\ i' = 0 /\ k' = 0 /\ j' = 0
  /\ frames' = EmptyFrames /\ up' = VInt(0, 1, 0)
  /\ rawKeys' = <<>> /\ bankKeys' = <<>>
  /\ bankT' = NoT /\ bankAngle' = Zero
  /\ memo' = noteStart(memo, input)

\* the head of the main loop: the frame of this division, and the first
\* call of extrudeShape up to "shape.length"
FixedUpDivision ==
  /\ pc = "loop" /\ inp.variant = "fixedUp"
  /\ i' = i + 1
  /\ IF i + 1 <= inp.divisions
     THEN /\ LET t == T(i + 1, inp.divisions)
             IN cur' = bankedFrame(inp.curve, t, bankFunc(inp.bank, t))
          /\ IF shapeOf(section(coasterTypeOf(inp.coasterType)), 1).defined
             THEN pc' = "extrude" /\ outcome' = outcome
             ELSE pc' = "error" /\ outcome' = "TypeError"
     ELSE pc' = "attributes" /\ outcome' = outcome /\ cur' = cur
  /\ k' = 1 /\ j' = 0
  /\ UNCHANGED <<applyMatrix3, inp, frames, prev, up, vertices, normalsA,
                 colors, geometry, rawKeys, bankKeys, bankT, bankAngle, memo>>

\* one pass of the loop of extrudeShape; the last edge of the last polygon
\* is followed by the copies into prevPoint, prevBinormal, ...
FixedUpEdge ==
  /\ pc = "extrude" /\ inp.variant = "fixedUp"
  /\ LET ct == coasterTypeOf(inp.coasterType)
         poly == polygons(ct)[k]
         shape == shapeOf(section(ct), poly.n).points
         e == extrudeEdge(applyMatrix3, shape, poly.offset, j, cur, prev)
         lastEdge == j + 1 = Len(shape)
         lastPoly == k = Len(polygons(ct))
     IN /\ vertices' = vertices \o e.vertices
        /\ normalsA' = normalsA \o e.normals
        /\ colors' = colors \o
             sixColors(colorFunc(inp.colorFunc, T(i, inp.divisions), poly.type))
        /\ j' = IF lastEdge THEN 0 ELSE j + 1
        /\ k' = IF lastEdge THEN k + 1 ELSE k
        /\ pc' = IF lastEdge /\ lastPoly THEN "loop" ELSE "extrude"
        /\ prev' = IF lastEdge /\ lastPoly THEN cur ELSE prev
  /\ UNCHANGED <<applyMatrix3, inp, outcome, frames, cur, up, i, geometry, rawKeys,
                 bankKeys, bankT, bankAngle, memo>>

(***************************************************************************)
(* src/unnamed/part_002: bank keyframes, frames kept as quaternions.       *)
(***************************************************************************)
Key(p, a) == [percent |-> p, angle |-> a]
\* rawKeys.map(k => ({ t: k.percent / 100, angle: k.angle }))
mapKeys(raw) ==
  [n \in 1..Len(raw) |-> [t |-> Q(raw[n].percent, 100), angle |-> Num(raw[n].angle)]]
\* .sort((a, b) => a.t - b.t): keys of equal t keep their order
RECURSIVE insertKey(_, _)
insertKey(sorted, key) ==
  IF sorted = <<>> THEN <<key>>
  ELSE IF RLt(key.t, sorted[Len(sorted)].t)
  THEN Append(insertKey(SubSeq(sorted, 1, Len(sorted) - 1), key), sorted[Len(sorted)])
  ELSE Append(sorted, key)
\* (mutation) the keys are used in the order given
keysAsGiven(keys) == keys
RECURSIVE sortKeys(_)
sortKeys(keys) ==
  IF keys = <<>> THEN <<>>
  ELSE insertKey(sortKeys(SubSeq(keys, 1, Len(keys) - 1)), keys[Len(keys)])
\* the caller's array and bankKeys once "const bankKeys = ..." has run
prepareKeys(raw) == [caller |-> raw, bankKeys |-> sortKeys(mapKeys(raw))]
\* const f = (t - a.t) / (b.t - a.t); return a.angle + f * (b.angle - a.angle);
interpolate(a, b, t) ==
  RAdd(a.angle, RMul(RDiv(RSub(t, a.t), RSub(b.t, a.t)), RSub(b.angle, a.angle)))
\* (mutation) a key at t itself does not close a segment
RECURSIVE segmentIndexStrict(_, _, _)
segmentIndexStrict(keys, t, n) ==
  IF n > Len(keys) - 1 THEN 0
  ELSE IF RLt(keys[n].t, t) /\ RLt(t, keys[n + 1].t) THEN n
  ELSE segmentIndexStrict(keys, t, n + 1)
\* the first segment from n on with t >= a.t && t <= b.t, 0 when the loop
\* runs out
RECURSIVE segmentIndex(_, _, _)
segmentIndex(keys, t, n) ==
  IF n > Len(keys) - 1 THEN 0
  ELSE IF RLe(keys[n].t, t) /\ RLe(t, keys[n + 1].t) THEN n
  ELSE segmentIndex(keys, t, n + 1)
\* the loop of getBankAngle from segment n on, and the return 0 after it
findSegment(keys, t, n) ==
  LET m == segmentIndex(keys, t, n)
  IN IF m = 0 THEN Zero ELSE interpolate(keys[m], keys[m + 1], t)
\* (mutation) no clamp to the last key
getBankAngleUnclamped(keys, t) ==
  LET n == Len(keys)
  IN IF n = 0 THEN Zero
     ELSE IF RLe(t, keys[1].t) THEN keys[1].angle
     ELSE findSegment(keys, t, 1)
getBankAngle(keys, t) ==
  LET n == Len(keys)
  IN IF n = 0 THEN Zero
     ELSE IF RLe(t, keys[1].t) THEN keys[1].angle
     ELSE IF RLe(keys[n].t, t) THEN keys[n].angle
     ELSE findSegment(keys, t, 1)

\* makeTube of this file: sine on x, cosine on y
makeTubeSinCos(sides, radius) == makeTubeOf(sides, radius, TRUE)
crossSectionsSinCos(key) ==
  [n \in 1..Len(tubesOf(key)) |-> makeTubeSinCos(tubesOf(key)[n][1], tubesOf(key)[n][2])]
sectionSinCos(coasterType) ==
  IF coasterType \notin CatalogKeys /\ coasterType \in InheritedKeys
  THEN [array |-> FALSE, shapes |-> <<>>]
  ELSE [array |-> TRUE,
        shapes |-> crossSectionsSinCos(IF coasterType \in CatalogKeys
                                       THEN coasterType ELSE "default")]
\* the cross-tie shape
step ==
  <<<<<<-9, 40>>, <<0, 1>>, <<0, 1>>>>, <<<<0, 1>>, <<-1, 20>>, <<0, 1>>>>,
    <<<<0, 1>>, <<-7, 40>>, <<0, 1>>>>, <<<<0, 1>>, <<-1, 20>>, <<0, 1>>>>,
    <<<<9, 40>>, <<0, 1>>, <<0, 1>>>>, <<<<0, 1>>, <<-7, 40>>, <<0, 1>>>>>>

\* basisMat.makeBasis(x, y, z): the matrix with these columns
makeBasis(x, y, z) == [r \in 1..3 |-> <<x[r], y[r], z[r]>>]
Transpose(m) == [r \in 1..3 |-> [c \in 1..3 |-> m[c][r]]]
\* row r, column c of a b is the dot product of row r of a and column c of b
multiplyColumns(a, bt) == [r \in 1..3 |-> [c \in 1..3 |-> dot(a[r], bt[c])]]
multiply(a, b) == multiplyColumns(a, Transpose(b))
\* m with its transpose mt is orthogonal and right-handed
IsRotationWith(m, mt) ==
  /\ multiplyColumns(m, m) = Identity
  /\ crossVectors(mt[1], mt[2]) = mt[3]
IsRotation(m) == IsRotationWith(m, Transpose(m))
\* the map v -> q v q* of the quaternion with vector part q and scalar w:
\* (w w - q.q) on the diagonal, plus 2 q_r q_c, -/+ 2 w q_k off the diagonal
quaternionMapOf(q, w) ==
  [r \in 1..3 |-> [c \in 1..3 |->
     RAdd(RMul(<<2, 1>>, RMul(q[r], q[c])),
          IF r = c THEN RSub(RMul(w, w), dot(q, q))
          ELSE RMul(RMul(<<2, 1>>, IF (c - r) % 3 = 1 THEN RNeg(w) ELSE w),
                    q[6 - r - c]))]]
quaternionMap(x, y, z, w) == quaternionMapOf(<<x, y, z>>, w)
\* the four cases of the library: the quaternion <<x, y, z, w>> from s
traceCase(m, s) ==
  <<RMul(RSub(m[3][2], m[2][3]), s), RMul(RSub(m[1][3], m[3][1]), s),
    RMul(RSub(m[2][1], m[1][2]), s), RDiv(<<1, 4>>, s)>>
\* the case of the largest diagonal element m[a][a], b and c the other two
diagonalCase(m, a, b, c, s) ==
  [n \in 1..4 |->
     IF n = a THEN RDiv(s, <<4, 1>>)
     ELSE IF n = b THEN RDiv(RAdd(m[a][b], m[b][a]), s)
     ELSE IF n = c THEN RDiv(RAdd(m[a][c], m[c][a]), s)
     ELSE RDiv(RSub(m[c][b], m[b][c]), s)]
diagonalRoot(m, a, b, c) ==
  RMul(<<2, 1>>, RSqrt(RSub(RAdd(One, m[a][a]), RAdd(m[b][b], m[c][c]))))
\* the largest diagonal element: <<a, b, c>> as the library names them
largest(m) ==
  IF RLt(m[2][2], m[1][1]) /\ RLt(m[3][3], m[1][1]) THEN <<1, 2, 3>>
  ELSE IF RLt(m[3][3], m[2][2]) THEN <<2, 3, 1>>
  ELSE <<3, 1, 2>>
quaternionFrom(m, trace, abc) ==
  IF RLt(Zero, trace)
  THEN traceCase(m, RDiv(Half, RSqrt(RAdd(trace, One))))
  ELSE diagonalCase(m, abc[1], abc[2], abc[3], diagonalRoot(m, abc[1], abc[2], abc[3]))
asMap(q) == quaternionMapOf(<<q[1], q[2], q[3]>>, q[4])
\* quaternion.setFromRotationMatrix(m): m itself when m is a rotation,
\* else what the library's four cases make of it
setFromRotationMatrix(m) ==
  IF IsRotation(m) THEN m
  ELSE asMap(quaternionFrom(m, Sum(<<m[1][1], m[2][2], m[3][3]>>), largest(m)))

KeyLists == {<<>>, <<Key(0, 1)>>, <<Key(100, 12), Key(0, 0)>>}
KeyframesInputs ==
  {Args("keyframes", Curve("Z", "Z"), d, st, <<>>, "absent") :
     d \in Divisions, st \in Styles}
  \cup {Args("keyframes", c, d, "skeleton", b, "custom") :
     c \in {Curve("Z", "Z"), Curve("Y", "Y"), Curve("A", "A")},
     d \in Divisions, b \in KeyLists}
\* the angle of a bank given in quarter turns; whole numbers only
angleOfBank(a) == IF a[2] = 1 THEN quarterTurns(a[1]) ELSE CHOOSE x \in {} : TRUE
\* a plain number as sgn * sqrt(n / d)
asRoot(a) == <<Sign(a)>> \o RMul(a, a)
\* the frame of the main loop at t: forward, right, the new up, quaternion
keyframeFrame(curve, t, prevPoint, upBefore, bank) ==
  LET banked(point, forward, upAfter, q) ==
        [point |-> point, up |-> upAfter,
         quat |-> IF bank # Zero
                  THEN multiply(q, setFromAxisAngle(forward, angleOfBank(bank)))
                  ELSE q]
      withUp(point, forward, right, upAfter) ==
        banked(point, forward, upAfter,
               setFromRotationMatrix(makeBasis(right, upAfter, forward)))
      withRight(point, forward, right) ==
        withUp(point, forward, right, crossVectors(forward, right))
      withForward(point, forward) ==
        withRight(point, forward, normalize(crossVectors(upBefore, forward)))
      withPoint(point) == withForward(point, normalize(sub(point, prevPoint)))
  IN withPoint(getPointAt(curve, t))
\* the normal drawShape pushes for every point: not normalized
shapeNormal(normal) == [m \in 1..3 |-> asRoot(normal[m])]
\* drawShape(shape, color): what it pushes
drawShape(shape, color, f) ==
  [vertices |-> Flat([n \in 1..Len(shape) |->
                        add(applyQuaternion(shape[n], f.quat), f.point)]),
   normals |-> Flat([n \in 1..Len(shape) |->
                       shapeNormal(applyQuaternion(VInt(0, 0, -1), f.quat))]),
   colors |-> Flat([n \in 1..Len(shape) |-> color])]
NoShape == [vertices |-> <<>>, normals |-> <<>>, colors |-> <<>>]
\* one pass of the loop of this file's extrudeShape
extrudeEdgeQuat(shape, offset, jj, f, fPrev) ==
  LET P(n) == shape[IF n \in {1, 4} THEN jj + 1 ELSE ((jj + 1) % Len(shape)) + 1]
      F(n) == IF n <= 2 THEN f ELSE fPrev
      corners ==
        [v |-> [n \in 1..4 |->
                  add(applyQuaternion(add(P(n), offset), F(n).quat), F(n).point)],
         n |-> [n \in 1..4 |-> normalizedComponents(applyQuaternion(P(n), F(n).quat))]]
  IN bothPushes(corners, <<1, 2, 4, 2, 3, 4>>)

\* the constructor up to its main loop
StartKeyframes(input) ==
  /\ Idle
  /\ input.variant = "keyframes"
  /\ inp' = input
  /\ outcome' = "none"
  /\ vertices' = <<>> /\ normalsA' = <<>> /\ colors' = <<>>
  /\ geometry' = <<>>
  /\ rawKeys' = prepareKeys(input.bank).caller
  /\ bankKeys' = prepareKeys(input.bank).bankKeys
  /\ up' = VInt(0, 1, 0)
  /\ cur' = [quat |-> Identity, point |-> VZero]
  /\ prev' = [quat |-> Identity, point |-> getPointAt(input.curve, Zero)]
  /\ pc' = "loop"
  /\ i' = 0 /\ k' = 0 /\ j' = 0
  /\ frames' = EmptyFrames
  /\ bankT' = NoT /\ bankAngle' = Zero
  /\ memo' = noteStart(memo, input)
  /\ UNCHANGED applyMatrix3

\* the head of the main loop: frame, bank, colors, the cross-tie, and the
\* first call of extrudeShape up to "shape.length"
KeyframesDivision ==
  LET ct == coasterTypeOf(inp.coasterType)
      tied(t, bank, f, tie) ==
        /\ bankT' = t /\ bankAngle' = bank
        /\ up' = f.up
        /\ cur' = [quat |-> f.quat, point |-> f.point]
        /\ vertices' = vertices \o tie.vertices
        /\ normalsA' = normalsA \o tie.normals
        /\ colors' = colors \o tie.colors
      framed(t, bank, f) ==
        tied(t, bank, f,
             IF ct = "B&M" /\ (i + 1) % 2 = 0
             THEN drawShape(step, colorFunc(inp.colorFunc, t, 2), f)
             ELSE NoShape)
      banked(t, bank) ==
        framed(t, bank, keyframeFrame(inp.curve, t, prev.point, up, bank))
  IN /\ pc = "loop" /\ inp.variant = "keyframes"
     /\ i' = i + 1
     /\ IF i + 1 <= inp.divisions
        THEN /\ banked(T(i + 1, inp.divisions),
                       getBankAngle(bankKeys, T(i + 1, inp.divisions)))
             /\ IF shapeOf(sectionSinCos(ct), 1).defined
                THEN pc' = "extrude" /\ outcome' = outcome
                ELSE pc' = "error" /\ outcome' = "TypeError"
        ELSE /\ pc' = "attributes" /\ outcome' = outcome
             /\ UNCHANGED <<bankT, bankAngle, up, cur, vertices, normalsA, colors>>
     /\ k' = 1 /\ j' = 0
     /\ UNCHANGED <<applyMatrix3, inp, frames, prev, geometry, rawKeys, bankKeys, memo>>

\* one pass of the loop of extrudeShape; the last edge of the last polygon
\* is followed by prevPoint.copy(point) and prevQuat.copy(quaternion)
KeyframesEdge ==
  /\ pc = "extrude" /\ inp.variant = "keyframes"
  /\ LET ct == coasterTypeOf(inp.coasterType)
         poly == polygons(ct)[k]
         shape == shapeOf(sectionSinCos(ct), poly.n).points
         e == extrudeEdgeQuat(shape, poly.offset, j, cur, prev)
         lastEdge == j + 1 = Len(shape)
         lastPoly == k = Len(polygons(ct))
     IN /\ vertices' = vertices \o e.vertices
        /\ normalsA' = normalsA \o e.normals
        /\ colors' = colors \o
             sixColors(colorFunc(inp.colorFunc, T(i, inp.divisions), poly.type))
        /\ j' = IF lastEdge THEN 0 ELSE j + 1
        /\ k' = IF lastEdge THEN k + 1 ELSE k
        /\ pc' = IF lastEdge /\ lastPoly THEN "loop" ELSE "extrude"
        /\ prev' = IF lastEdge /\ lastPoly THEN cur ELSE prev
  /\ UNCHANGED <<applyMatrix3, inp, outcome, frames, cur, up, i, geometry, rawKeys,
                 bankKeys, bankT, bankAngle, memo>>

(***************************************************************************)
(* getBankAngle on its own: the constructor prepares the keys, then the    *)
(* function is asked at points of [0, 1].                                  *)
(***************************************************************************)
KeyPercents == {0, 50, 100}
KeyAngles == {0, 2}
BankKeys == {Key(p, a) : p \in KeyPercents, a \in KeyAngles}
BankLists == UNION {[1..n -> BankKeys] : n \in 0..MaxKeys}
BankInputs ==
  {Args("keyframes", Curve("Z", "Z"), 1, "skeleton", b, "absent") : b \in BankLists}
BankTimes == {Q(n, 4) : n \in 0..4}
\* getBankAngle(t)
AskBankAngle(t) ==
  /\ pc = "loop" /\ inp.variant = "keyframes"
  /\ bankT' = t
  /\ bankAngle' = getBankAngle(bankKeys, t)
  /\ UNCHANGED <<applyMatrix3, pc, inp, outcome, frames, cur, prev, up, i, k, j,
                 vertices, normalsA, colors, geometry, rawKeys, bankKeys, memo>>

\* The attributes hold the numbers of the three arrays in the order pushed.
\* The arrays are kept as exact numbers: the rounding of each number to
\* single precision by Float32Array is not part of this model.
\* this.setAttribute('position' | 'normal' | 'color', ...)
SetAttributes ==
  /\ pc = "attributes"
  /\ geometry' = <<[position |-> vertices,
                    normal |-> normalsA,
                    color |-> colors]>>
  /\ pc' = "done"
  /\ outcome' = "mesh"
  /\ UNCHANGED <<applyMatrix3, inp, frames, cur, prev, up, i, k, j, vertices,
                 normalsA, colors, rawKeys, bankKeys, bankT, bankAngle, memo>>

Init ==
  /\ applyMatrix3 = "three"
  /\ pc = "idle"
  /\ inp = Args("none", Curve("Z", "Z"), 0, "absent", "absent", "absent")
  /\ outcome = "none"
  /\ frames = EmptyFrames
  /\ cur = <<>>
  /\ prev = <<>>
  /\ up = VInt(0, 1, 0)
  /\ i = 0 /\ k = 0 /\ j = 0
  /\ vertices = <<>> /\ normalsA = <<>> /\ colors = <<>>
  /\ geometry = <<>>
  /\ rawKeys = <<>> /\ bankKeys = <<>>
  /\ bankT = NoT /\ bankAngle = Zero
  /\ memo = <<>>

Next ==
  \/ \E input \in TransportInputs : StartTransport(input)
  \/ TransportStep
  \/ TransportDivision
  \/ TransportEdge
  \/ \E input \in FixedUpInputs : StartFixedUp(input)
  \/ FixedUpDivision
  \/ FixedUpEdge
  \/ \E input \in KeyframesInputs : StartKeyframes(input)
  \/ KeyframesDivision
  \/ KeyframesEdge
  \/ SetAttributes
Spec == Init /\ [][Next]_vars

(***************************************************************************)
(* Constructions one after another, one finished construction kept to      *)
(* compare later ones with.                                                *)
(***************************************************************************)
RepeatInputs ==
  {Args(v, Curve("X", "A"), d, "skeleton", "quarter", "custom") :
     v \in {"transport", "fixedUp"}, d \in 1..MaxDivisions}
  \cup {Args("keyframes", Curve("A", "A"), d, "skeleton", <<Key(0, 1)>>, "custom") :
     d \in 1..MaxDivisions}
Remember ==
  /\ pc = "done" /\ Len(memo) = 0
  /\ memo' = <<[inp |-> inp, geometry |-> geometry[1], disturbed |-> FALSE]>>
  /\ UNCHANGED <<applyMatrix3, pc, inp, outcome, frames, cur, prev, up, i, k, j,
                 vertices, normalsA, colors, geometry, rawKeys, bankKeys, bankT,
                 bankAngle>>
NextRepeat ==
  \/ \E input \in RepeatInputs : StartTransport(input)
  \/ \E input \in RepeatInputs : StartFixedUp(input)
  \/ \E input \in RepeatInputs : StartKeyframes(input)
  \/ TransportStep
  \/ TransportDivision
  \/ TransportEdge
  \/ FixedUpDivision
  \/ FixedUpEdge
  \/ KeyframesDivision
  \/ KeyframesEdge
  \/ SetAttributes
  \/ Remember
SpecRepeat == Init /\ [][NextRepeat]_vars

NextBank ==
  \/ \E input \in BankInputs : StartKeyframes(input)
  \/ \E t \in BankTimes : AskBankAngle(t)
SpecBank == Init /\ [][NextBank]_vars

(***************************************************************************)
(* Properties.                                                             *)
(***************************************************************************)
Done == pc = "done" /\ Len(geometry) = 1
\* vertices of a flat attribute array of item size 3
VertexCount(a) == Len(a) \div 3
\* ring edges of the polygons of a style: 4, or 5 + 6 + 6
RingEdges(coasterType) == IF coasterType = "skeleton" THEN 4 ELSE 17
\* C1: after a construction with divisions >= 1 the position
\* attribute holds divisions * E * 6 vertices and nothing else.
C1_OnlyRingVertices ==
  (Done /\ inp.divisions >= 1) =>
     VertexCount(geometry[1].position)
       = inp.divisions * RingEdges(coasterTypeOf(inp.coasterType)) * 6

\* C2: a construction with divisions < 1 never completes with a mesh.
C2_InvalidDivisionsRejected ==
  (inp.variant # "none" /\ inp.divisions < 1) =>
     (pc # "done" /\ outcome # "mesh" /\ Len(geometry) = 0)

\* C3: a style name that is no key of the catalog never raises an error,
\* resolves to the cross-sections of 'default' and gives the vertex count
\* of the default style.
C3_UnknownStyleFallsBack ==
  (inp.variant # "none" /\ inp.coasterType \notin (CatalogKeys \cup {"absent"})) =>
     /\ outcome # "TypeError"
     /\ section(inp.coasterType) = section("default")
     /\ Done => VertexCount(geometry[1].position) = inp.divisions * 17 * 6

Asked == pc = "loop" /\ inp.variant = "keyframes" /\ bankT # NoT
\* r is the value at t of the line through keys a and b
OnLine(r, t, a, b) ==
  RMul(RSub(r, a.angle), RSub(b.t, a.t)) = RMul(RSub(t, a.t), RSub(b.angle, a.angle))

\* C4: getBankAngle(t) is 0 without keyframes, the angle of a single
\* keyframe, the first angle at or below the first key, the last angle at
\* or above the last key, and between them the linear interpolation of two
\* neighbouring keys that bracket t.
C4_BankAngle ==
  Asked =>
    LET n == Len(bankKeys)
        first == bankKeys[1]
        last == bankKeys[n]
    IN /\ n = 0 => bankAngle = Zero
       /\ n = 1 => bankAngle = bankKeys[1].angle
       /\ (n >= 2 /\ RLe(bankT, first.t)) => bankAngle = first.angle
       /\ (n >= 2 /\ RLt(first.t, bankT) /\ RLe(last.t, bankT)) => bankAngle = last.angle
       /\ (n >= 2 /\ RLt(first.t, bankT) /\ RLt(bankT, last.t)) =>
            \E m \in 1..(n - 1) :
               /\ RLe(bankKeys[m].t, bankT) /\ RLe(bankT, bankKeys[m + 1].t)
               /\ RLt(bankKeys[m].t, bankKeys[m + 1].t)
               /\ OnLine(bankAngle, bankT, bankKeys[m], bankKeys[m + 1])
C4_Witness ==
  /\ Asked /\ Len(bankKeys) = 2
  /\ RLt(bankKeys[1].t, bankT) /\ RLt(bankT, bankKeys[2].t)
  /\ bankKeys[1].angle # bankKeys[2].angle
  /\ bankAngle # bankKeys[1].angle /\ bankAngle # bankKeys[2].angle

DistinctTimes(raw) ==
  \A a, b \in 1..Len(raw) : a # b => raw[a].percent # raw[b].percent
Reorderings(raw) ==
  {[n \in 1..Len(raw) |-> raw[f[n]]] :
     f \in {g \in [1..Len(raw) -> 1..Len(raw)] : \A a, b \in 1..Len(raw) : a # b => g[a] # g[b]}}

\* C5: the keyframes are sorted by t when the constructor starts, the
\* caller's array keeps its order, and with distinct t values the bank
\* angle is the same for every order of the input list.
C5_SortedOnce ==
  (pc = "loop" /\ inp.variant = "keyframes") =>
     /\ rawKeys = inp.bank
     /\ Len(bankKeys) = Len(rawKeys)
     /\ \A n \in 1..(Len(bankKeys) - 1) : RLe(bankKeys[n].t, bankKeys[n + 1].t)
     /\ (Asked /\ DistinctTimes(rawKeys)) =>
          \A other \in Reorderings(rawKeys) :
             getBankAngle(prepareKeys(other).bankKeys, bankT) = bankAngle
C5_Witness ==
  /\ Asked /\ Len(rawKeys) = 2 /\ DistinctTimes(rawKeys)
  /\ rawKeys[1].percent > rawKeys[2].percent
  /\ rawKeys[1].angle # rawKeys[2].angle
  /\ rawKeys = inp.bank
  /\ RLt(bankKeys[1].t, bankT) /\ RLt(bankT, bankKeys[2].t)

QuarterTurn(v, axis) == applyQuaternion(v, setFromAxisAngle(axis, quarterTurns(1)))
\* C6: on the straight vertical path with a constant bank of pi/2, normal
\* and binormal of every frame are those of the unbanked frame turned by
\* one quarter turn about the tangent.
C6_ConstantBank ==
  (inp.variant = "transport" /\ inp.curve = Curve("Y", "Y") /\ inp.bank = "quarter") =>
     LET unbanked == initialFrame(inp.curve)
     IN \A n \in 1..Len(frames.normals) :
          /\ frames.normals[n] = QuarterTurn(unbanked.normal, unbanked.tangent)
          /\ frames.binormals[n] = QuarterTurn(unbanked.binormal, unbanked.tangent)

Orthonormal(t, n, b) ==
  /\ lengthSq(t) = One /\ lengthSq(n) = One /\ lengthSq(b) = One
  /\ dot(t, n) = Zero /\ dot(t, b) = Zero /\ dot(n, b) = Zero
  /\ b = crossVectors(t, n)
\* C7: every frame of parallelTransportFrames is orthonormal and
\* right-handed, binormal = tangent x normal.
C7_OrthonormalFrames ==
  inp.variant = "transport" =>
     \A n \in 1..Len(frames.tangents) :
        Orthonormal(frames.tangents[n], frames.normals[n], frames.binormals[n])

\* C9: no construction rebinds Vector3.prototype.applyMatrix3: the method
\* stays the one the library defined.
C9_SharedStateUntouched == applyMatrix3 = "three"

\* C8: a construction with the arguments of an earlier one ends with the
\* same position, normal and color attributes, whatever ran in between.
C8_Deterministic ==
  (Done /\ Len(memo) = 1 /\ memo[1].inp = inp) => geometry[1] = memo[1].geometry
C8_Witness ==
  /\ Done /\ Len(memo) = 1 /\ memo[1].inp = inp /\ memo[1].disturbed
  /\ inp.variant = "transport" /\ Len(geometry[1].position) > 0
  /\ geometry[1] = memo[1].geometry

\* the ring, offset and color type of edge r (from 0) of a division
EdgeOfDivision(coasterType, r) ==
  LET rings == crossSections(IF coasterType \in CatalogKeys THEN coasterType ELSE "default")
  IN IF coasterType = "skeleton"
     THEN [ring |-> rings[1], j |-> r, offset |-> Vec(Zero, Q(-1, 20), Zero), type |-> 2]
     ELSE IF r < 5
     THEN [ring |-> rings[1], j |-> r, offset |-> Vec(Zero, Q(-1, 8), Zero), type |-> 2]
     ELSE IF r < 11
     THEN [ring |-> rings[2], j |-> r - 5, offset |-> Vec(Q(1, 5), Zero, Zero), type |-> 1]
     ELSE [ring |-> rings[3], j |-> r - 11, offset |-> Vec(Q(-1, 5), Zero, Zero), type |-> 1]
\* the vector p in the basis (binormal, normal, tangent) of a frame
InBasis(p, f) ==
  add(add(multiplyScalar(f.binormal, p[1]), multiplyScalar(f.normal, p[2])),
      multiplyScalar(f.tangent, p[3]))
\* what edge m (from 0, counted over the whole construction) must have pushed
ExpectedEdge(m) ==
  LET ct == coasterTypeOf(inp.coasterType)
      E == RingEdges(ct)
      d == (m \div E) + 1
      e == EdgeOfDivision(ct, m % E)
      p1 == e.ring[e.j + 1]
      p2 == e.ring[IF e.j + 1 = Len(e.ring) THEN 1 ELSE e.j + 2]
      f == frameAt(frames, inp.curve, d, inp.divisions)
      fp == frameAt(frames, inp.curve, d - 1, inp.divisions)
      v1 == add(InBasis(add(p1, e.offset), f), f.point)
      v2 == add(InBasis(add(p2, e.offset), f), f.point)
      v3 == add(InBasis(add(p2, e.offset), fp), fp.point)
      v4 == add(InBasis(add(p1, e.offset), fp), fp.point)
      n1 == normalizedComponents(InBasis(p1, f))
      n2 == normalizedComponents(InBasis(p2, f))
      n3 == normalizedComponents(InBasis(p2, fp))
      n4 == normalizedComponents(InBasis(p1, fp))
      c == colorFunc(inp.colorFunc, Q(d, inp.divisions), e.type)
  IN [vertices |-> Flat(<<v1, v2, v4, v2, v3, v4>>),
      normals |-> Flat(<<n1, n2, n4, n2, n3, n4>>),
      colors |-> Flat(<<c, c, c, c, c, c>>)]
\* edges pushed when the loops stand at division i, polygon k, edge j
EdgesPushed ==
  LET ct == coasterTypeOf(inp.coasterType)
      before == IF k <= 1 THEN 0 ELSE IF k = 2 THEN 5 ELSE 11
  IN CASE pc = "extrude" -> (i - 1) * RingEdges(ct) + before + j
       [] pc = "loop" -> i * RingEdges(ct)
       [] pc \in {"attributes", "done"} -> inp.divisions * RingEdges(ct)
       [] OTHER -> 0
\* C10: the buffers are filled division by division, polygon by polygon
\* (spine, side +0.2, side -0.2), edge by edge, six vertices (v1, v2, v4,
\* v2, v3, v4) per edge, with positions, normals and colors of a vertex at
\* the same index.
C10_BufferOrder ==
  inp.variant = "transport" =>
     /\ Len(vertices) = 18 * EdgesPushed
     /\ Len(normalsA) = Len(vertices) /\ Len(colors) = Len(vertices)
     /\ \A m \in 0..(EdgesPushed - 1) :
          LET x == ExpectedEdge(m)
          IN /\ SubSeq(vertices, 18 * m + 1, 18 * m + 18) = x.vertices
             /\ SubSeq(normalsA, 18 * m + 1, 18 * m + 18) = x.normals
             /\ SubSeq(colors, 18 * m + 1, 18 * m + 18) = x.colors
C10_Witness ==
  /\ Done /\ inp.variant = "transport" /\ inp.coasterType = "B&M"
  /\ inp.divisions = 2 /\ Len(vertices) = 2 * 17 * 18

\* C11: after every edge and after every completed construction the three
\* sequences have one length, a multiple of 3 (of 9: whole triangles), and
\* the attributes of a finished geometry are those sequences.
C11_SameLengths ==
  /\ pc \in {"loop", "extrude", "attributes", "done"} =>
       /\ Len(normalsA) = Len(vertices) /\ Len(colors) = Len(vertices)
       /\ Len(vertices) % 3 = 0 /\ Len(vertices) % 9 = 0
  /\ Done =>
       /\ Len(geometry[1].position) = Len(vertices)
       /\ Len(geometry[1].normal) = Len(geometry[1].position)
       /\ Len(geometry[1].color) = Len(geometry[1].position)
       /\ Len(geometry[1].position) % 3 = 0
C11_Witness ==
  /\ pc = "extrude" /\ inp.colorFunc = "custom" /\ j > 0
  /\ Len(colors) > 0 /\ Len(colors) = Len(vertices)

\* cross-ties drawn before the edges of division d
TiesBefore(d) ==
  IF inp.variant = "keyframes" /\ coasterTypeOf(inp.coasterType) = "B&M"
  THEN d \div 2 ELSE 0
\* the six color triples pushed for edge m (from 0) of the construction
ColorsOfEdge(m) ==
  LET d == (m \div RingEdges(coasterTypeOf(inp.coasterType))) + 1
      first == 18 * (m + TiesBefore(d))
  IN [n \in 1..6 |-> SubSeq(colors, first + 3 * n - 2, first + 3 * n)]
\* 2 for the spine (the first polygon), 1 for the side rails
RoleOfEdge(m) ==
  LET ct == coasterTypeOf(inp.coasterType)
  IN IF ct = "skeleton" \/ m % RingEdges(ct) < 5 THEN 2 ELSE 1
\* C12: the six color triples of every edge of division i are colorFunc(i /
\* divisions, 2) on the spine and colorFunc(i / divisions, 1) on the side
\* rails; without a colorFunc these are [1,1,0] and [1,1,1].
C12_FlatColors ==
  inp.variant # "none" =>
    \A m \in 0..(EdgesPushed - 1) :
      LET d == (m \div RingEdges(coasterTypeOf(inp.coasterType))) + 1
      IN \A n \in 1..6 :
           /\ ColorsOfEdge(m)[n] = colorFunc(inp.colorFunc, Q(d, inp.divisions), RoleOfEdge(m))
           /\ inp.colorFunc = "absent" =>
                ColorsOfEdge(m)[n] = IF RoleOfEdge(m) = 2
                                     THEN <<<<1, 1>>, <<1, 1>>, <<0, 1>>>>
                                     ELSE <<<<1, 1>>, <<1, 1>>, <<1, 1>>>>
C12_Witness ==
  /\ Done /\ inp.variant = "transport" /\ inp.colorFunc = "custom"
  /\ inp.divisions = 2 /\ coasterTypeOf(inp.coasterType) = "B&M"
  /\ ColorsOfEdge(17 + 5)[1] = <<<<1, 1>>, <<0, 1>>, <<0, 1>>>>
  /\ ColorsOfEdge(0)[6] = <<<<1, 2>>, <<1, 1>>, <<0, 1>>>>

\* vertex n (1..6, pushed as v1, v2, v4, v2, v3, v4) of edge m (from 0)
VertexOfEdge(m, n) ==
  LET d == (m \div RingEdges(coasterTypeOf(inp.coasterType))) + 1
      first == 18 * (m + TiesBefore(d))
  IN SubSeq(vertices, first + 3 * n - 2, first + 3 * n)
\* the ring points p1, p2 and the offset of edge m
PointsOfEdge(m) ==
  LET ct == coasterTypeOf(inp.coasterType)
      r == m % RingEdges(ct)
      n == IF ct = "skeleton" \/ r < 5 THEN 1 ELSE IF r < 11 THEN 2 ELSE 3
      jj == IF n = 1 THEN r ELSE IF n = 2 THEN r - 5 ELSE r - 11
      ring == IF inp.variant = "keyframes"
              THEN shapeOf(sectionSinCos(ct), n).points
              ELSE shapeOf(section(ct), n).points
  IN [p1 |-> add(ring[jj + 1], polygons(ct)[n].offset),
      p2 |-> add(ring[IF jj + 1 = Len(ring) THEN 1 ELSE jj + 2], polygons(ct)[n].offset)]
\* the point p of a ring placed by the frame and the curve point at t = 0
PlacedAtZero(p) ==
  LET origin == getPointAt(inp.curve, Zero)
      tangent0 == getTangentAt(inp.curve, Zero)
  IN CASE inp.variant = "transport" ->
            add(InBasis(p, frameAt(frames, inp.curve, 0, inp.divisions)), origin)
       [] inp.variant = "fixedUp" ->
            add(InBasis(p, fixedUpFrame(inp.curve, Zero)), origin)
       [] inp.variant = "keyframes" ->
            add(applyQuaternion(p,
                  keyframeFrame(inp.curve, Zero, sub(origin, tangent0), VInt(0, 1, 0),
                                getBankAngle(bankKeys, Zero)).quat), origin)
\* v4 and v3 of every edge of a division from 2 on are v1 and v2 of the same
\* edge one division earlier
SeamsClosed ==
  LET E == RingEdges(coasterTypeOf(inp.coasterType))
  IN \A m \in E..(EdgesPushed - 1) :
       /\ VertexOfEdge(m, 3) = VertexOfEdge(m - E, 1)
       /\ VertexOfEdge(m, 5) = VertexOfEdge(m - E, 2)
\* v4 and v3 of every edge of division 1 lie on the ring at t = 0
StartsAtZero ==
  LET E == RingEdges(coasterTypeOf(inp.coasterType))
  IN \A m \in 0..(EdgesPushed - 1) :
       m < E => /\ VertexOfEdge(m, 3) = PlacedAtZero(PointsOfEdge(m).p1)
                /\ VertexOfEdge(m, 5) = PlacedAtZero(PointsOfEdge(m).p2)
\* C13: the mesh is seamless along the path, and the previous ring of
\* division 1 is the ring placed by the frame and curve point at t = 0.
C13_Seamless == inp.variant # "none" => (SeamsClosed /\ StartsAtZero)

\* the cross products with the reference axis that the frames in use came
\* from were not of length zero: binormal (right) and what is derived from
\* it are not the zero vector
FramesFromNonZeroCross ==
  CASE inp.variant = "transport" ->
         \A n \in 1..Len(frames.binormals) :
            frames.binormals[n] # VZero /\ frames.normals[n] # VZero
    [] inp.variant = "fixedUp" ->
         pc \in {"loop", "extrude", "attributes", "done"} =>
            /\ cur.binormal # VZero /\ cur.normal # VZero
            /\ prev.binormal # VZero /\ prev.normal # VZero
    [] inp.variant = "keyframes" -> up # VZero
    [] OTHER -> TRUE
\* C14: in every frame strategy a tangent parallel to the reference up axis
\* makes the code take another axis, so no frame of a sample 0..divisions
\* is built from a cross product of length zero.
C14_ParallelGuarded == FramesFromNonZeroCross

\* the frame of sample n as the fixed-up strategy defines it: from the
\* tangent at t_n, the up axis (0, 1, 0) and the bank angle at t_n
FrameOfSample(n) ==
  LET t == T(n, inp.divisions)
  IN bankedFrame(inp.curve, t, bankFunc(inp.bank, t))
\* C15: in the fixed-up variant the frame of every sample 0..divisions, the
\* frame at t = 0 that is the previous ring of division 1 included, depends
\* only on the tangent at t_i, the fixed up axis and the bank angle at t_i;
\* the up axis is the same at every sample.
C15_FrameOfSampleOnly ==
  /\ (inp.variant = "fixedUp" /\ pc = "extrude") =>
        cur = FrameOfSample(i) /\ prev = FrameOfSample(i - 1)
  /\ (inp.variant = "fixedUp" /\ pc = "loop") =>
        cur = FrameOfSample(i) /\ prev = FrameOfSample(i)
  /\ (inp.variant = "keyframes" /\ pc \in {"loop", "extrude"}) =>
        up = VInt(0, 1, 0)

\* C16: for a sorted list of one or more keyframes, keyframes of equal t
\* included, and t in [0, 1]: between the first and the last key the loop
\* of getBankAngle finds a segment (it never reaches the final return 0),
\* the segment it interpolates on has b.t different from a.t, and the angle
\* returned lies between the smallest and the largest keyframe angle.
C16_SafeInterpolation ==
  (Asked /\ Len(bankKeys) >= 1) =>
    LET n == Len(bankKeys)
        m == segmentIndex(bankKeys, bankT, 1)
    IN /\ (RLt(bankKeys[1].t, bankT) /\ RLt(bankT, bankKeys[n].t)) =>
            /\ m \in 1..(n - 1)
            /\ bankKeys[m].t # bankKeys[m + 1].t
            /\ bankAngle = interpolate(bankKeys[m], bankKeys[m + 1], bankT)
       /\ \E lo, hi \in 1..n :
            /\ RLe(bankKeys[lo].angle, bankAngle)
            /\ RLe(bankAngle, bankKeys[hi].angle)
C16_Witness ==
  /\ Asked /\ Len(bankKeys) = 4
  /\ RLt(bankKeys[1].t, bankT) /\ RLt(bankT, bankKeys[4].t)
  /\ bankKeys[2].t = bankT /\ bankKeys[3].t = bankT
  /\ bankKeys[2].angle # bankKeys[3].angle
  /\ bankAngle = bankKeys[2].angle
====
